---- MODULE Spec2Model ----
(***************************************************************************)
(* scratch.js: while, for, forEach, reduce, map, filter and compact, each  *)
(* built on the previous one.  One behaviour of the model is one call of   *)
(* one public function; a state is taken at every point where a function   *)
(* passed as a parameter is about to be invoked.  pluck, which is map with  *)
(* a property selector, is not modelled.                                    *)
(***************************************************************************)
EXTENDS Integers, Sequences, FiniteSets

\* ------------------------------------------------------------------ bounds
\* longest input array
MaxLen == 3
\* most mutations (push/pop) a forEach callback performs in one call
MaxMut == 2
\* deepest recursion of loop() that is explored
MaxDepth == MaxLen + MaxMut + 1

\* ------------------------------------------------------- JavaScript values
\* A value is a tag and a number: the number itself, the boolean as 0/1,
\* the length of a string, the heap address of an array, the id of a
\* function or of an Error object.
Undef == [t |-> "undefined", n |-> 0]
Null == [t |-> "null", n |-> 0]
Bool(b) == [t |-> "boolean", n |-> IF b THEN 1 ELSE 0]
Num(k) == [t |-> "number", n |-> k]
Str(len) == [t |-> "string", n |-> len]
Ref(a) == [t |-> "array", n |-> a]
Fun(id) == [t |-> "function", n |-> id]
Err(id) == [t |-> "Error", n |-> id]
\* what the engine throws when a non-function is called
TypeErr == [t |-> "TypeError", n |-> 0]

\* the typeof operator
TypeOf(v) ==
    CASE v.t = "undefined" -> "undefined"
      [] v.t = "boolean" -> "boolean"
      [] v.t = "number" -> "number"
      [] v.t = "string" -> "string"
      [] v.t = "function" -> "function"
      [] OTHER -> "object"

\* ToBoolean, as applied by `!x` and `if (x)`
ToBoolean(v) ==
    CASE v.t \in {"undefined", "null"} -> FALSE
      [] v.t \in {"boolean", "number", "string"} -> v.n # 0
      [] OTHER -> TRUE

\* `v != null`: loose inequality equates null and undefined only
LooseNotNull(v) == ~(v.t \in {"null", "undefined"})

\* `a < k` for a number k: undefined converts to NaN and compares false
LessThan(a, k) == a.t = "number" /\ a.n < k

\* length of the string thrown by scratch.while
WhileMessageLen == 55
WhileMessage == Str(WhileMessageLen)

\* a function supplied by the caller, and forEach's own condition closure
CallerFn == Fun(0)
ForEachCondition == Fun(1)

\* ------------------------------------------------------------------ inputs
Elements == {Undef, Null, Bool(FALSE), Num(0), Num(1), Str(0)}
NonCallables == {Undef, Null, Bool(TRUE), Num(1)}
CondResults == {Bool(TRUE), Bool(FALSE), Num(1), Undef}
Errors == {Err(1), Str(4)}
Memos == {Num(0), Num(1)}
Aggregators == {"horner", "last", "keep"}
Selectors == {"not", "self", "zero"}
Predicates == {"self", "isNumber", "never"}

SeqsUpTo(S, k) == UNION {[1..m -> S] : m \in 0..k}

\* caller-supplied pure functions, by name
ApplyAggregator(g, m, e) ==
    CASE g = "horner" -> Num(2 * m.n + (IF ToBoolean(e) THEN 1 ELSE 0))
      [] g = "last" -> e
      [] OTHER -> m
ApplySelector(g, e) ==
    CASE g = "not" -> Bool(~ToBoolean(e))
      [] g = "zero" -> Num(0)
      [] OTHER -> e
ApplyPredicate(g, e) ==
    CASE g = "self" -> e
      [] g = "isNumber" -> Bool(e.t = "number")
      [] OTHER -> Bool(FALSE)

Ops == {"while", "for", "forEach", "reduce", "map", "filter", "compact"}
UsesFor == Ops \ {"while"}
UsesForEach == UsesFor \ {"for"}
UsesReduce == UsesForEach \ {"forEach"}

\* ------------------------------------------------------------------- state
VARIABLES
    op,         \* the public function that was called
    f,          \* name of the caller's aggregator / selector / predicate
    S,          \* contents of the input array when the call was made
    heap,       \* the arrays: heap[a] is the contents of the array at a
    array,      \* the `array` argument
    condition,  \* the `condition` argument of scratch.while
    i,          \* forEach's index variable
    memo,       \* reduce's accumulator
    memo0,      \* the `memo` argument when the call was made
    depth,      \* number of active frames of loop()
    pc,         \* the function about to run, or "done" / "thrown"
    thrown,     \* the value that reached the caller when pc = "thrown"
    ret,        \* the value returned when pc = "done"
    trace       \* invocations of parameter functions so far, in order

vars == <<op, f, S, heap, array, condition, i, memo, memo0, depth, pc, thrown, ret, trace>>

\* one invocation: the parameter invoked, its arguments, how it ended
\* ("return" / "throw") with which value, and what it did to the input array
Ev(fn, a, b, out, r, fx) ==
    [fn |-> fn, a |-> a, b |-> b, out |-> out, r |-> r, fx |-> fx]
Returned(fn, a, b, r) == Ev(fn, a, b, "return", r, "none")
Threw(fn, a, b, e) == Ev(fn, a, b, "throw", e, "none")

Mutations == Cardinality({k \in DOMAIN trace : trace[k].fx # "none"})

Init ==
    /\ op \in Ops
    /\ pc = op
    /\ IF op \in UsesForEach
         THEN /\ S \in SeqsUpTo(Elements, MaxLen)
              /\ heap = <<S>>
              /\ array = Ref(1)
         ELSE /\ S = <<>>
              /\ heap = <<>>
              /\ array = Undef
    /\ IF op \in {"while", "for"}
         THEN condition \in {CallerFn} \cup NonCallables
         ELSE condition = Undef
    /\ f \in CASE op = "reduce" -> Aggregators
               [] op = "map" -> Selectors
               [] op = "filter" -> Predicates
               [] OTHER -> {"caller"}
    /\ memo \in (IF op = "reduce" THEN Memos ELSE {Undef})
    /\ memo0 = memo
    /\ i = Undef
    /\ depth = 0
    /\ thrown = Undef
    /\ ret = Undef
    /\ trace = <<>>

\* ------------------------------------------------- the library's own steps
\* mutant of NotAFunction: only null and undefined are refused
NotAFunctionNullOnly(c) == c.t \in {"undefined", "null"}

\* line 49: the argument check of scratch.while
NotAFunction(c) == TypeOf(c) # "function"

\* line 54: `if (!condition()) { return; }`
LoopContinues(r) == ToBoolean(r)

\* mutant of Recurse: the loop continues in the same frame
RecurseInPlace(d) == d

\* line 56: loop() calls itself, one more frame
Recurse(d) == d + 1

\* mutant of ForEachTest: the length is read once, when forEach is called
ForEachTestSnapshot(idx, cur, initial) == Bool(LessThan(idx, Len(initial)))

\* line 77: forEach's condition, reading the array's length when called
ForEachTest(idx, cur, initial) == Bool(LessThan(idx, Len(cur)))

\* mutant of ForEachInit: the index starts at 1
ForEachInitAtOne == Num(1)

\* line 74 and line 80: forEach's init and update
ForEachInit == Num(0)
ForEachUpdate(idx) == Num(idx.n + 1)

\* line 83: array[i]; an index that is not an element reads undefined
Element(a, idx) ==
    IF idx.t = "number" /\ idx.n + 1 \in DOMAIN a THEN a[idx.n + 1] ELSE Undef

\* mutant of ReduceCallback: the aggregator's arguments are swapped
ReduceCallbackSwapped(g, m, e) == ApplyAggregator(g, e, m)

\* line 90: memo = aggregator(memo, element)
ReduceCallback(g, m, e) == ApplyAggregator(g, m, e)

\* line 112 and line 133: the `[]` passed as memo is a new array
NewArray(h) == Len(h) + 1

\* Array.prototype.push
Push(h, a, v) == [h EXCEPT ![a] = Append(@, v)]
Pop(h, a) == [h EXCEPT ![a] = SubSeq(@, 1, Len(@) - 1)]

\* mutant of MapAggregator: the element is pushed, not the selector's result
MapAggregatorPushesElement(h, result, g, e) == Push(h, result.n, e)

\* line 107: result.push(selector(element))
MapAggregator(h, result, g, e) == Push(h, result.n, ApplySelector(g, e))

\* mutant of FilterKeeps: only the boolean true counts
FilterKeepsTrueOnly(p) == p = Bool(TRUE)

\* line 126: `if (predicate(element))`
FilterKeeps(p) == ToBoolean(p)

\* mutant of CompactPredicate: every falsy element is dropped
CompactPredicateTruthy(e) == Bool(ToBoolean(e))

\* line 151: compact's predicate
CompactPredicate(e) == Bool(LooseNotNull(e))

\* line 92, and the functions that have no return statement
ReturnValue == IF op \in UsesReduce THEN memo ELSE Undef

\* --------------------------------------------------------------- outcomes
\* What one invocation can do: the events it adds, the heap and memo it
\* leaves, and whether it returned or threw (and what).
Outcome(ev, h, m, out, r) == [ev |-> ev, h |-> h, m |-> m, out |-> out, r |-> r]

\* condition(), line 54
ConditionOutcomes ==
    IF TypeOf(condition) # "function"
      THEN {[out |-> "throw", r |-> TypeErr]}
    ELSE IF condition = ForEachCondition
      THEN {[out |-> "return", r |-> ForEachTest(i, heap[array.n], S)]}
    ELSE {[out |-> "return", r |-> r] : r \in CondResults}
           \cup {[out |-> "throw", r |-> e] : e \in Errors}

\* a function of the caller that takes no argument: init, update, fn
CallerOutcomes(name) ==
    {Outcome(<<Returned(name, Undef, Undef, Undef)>>, heap, memo, "return", Undef)}
      \cup {Outcome(<<Threw(name, Undef, Undef, e)>>, heap, memo, "throw", e) : e \in Errors}

\* forEach's callback when the caller supplied it: it may leave the array
\* alone, push onto it, pop from it, or throw
CallbackOutcomes(el) ==
    {Outcome(<<Returned("forEach::fn", el, Undef, Undef)>>, heap, memo, "return", Undef)}
      \cup {Outcome(<<Threw("forEach::fn", el, Undef, e)>>, heap, memo, "throw", e) : e \in Errors}
      \cup {Outcome(<<Ev("forEach::fn", el, Undef, "return", Undef, "push")>>,
                    Push(heap, array.n, Num(1)), memo, "return", Undef) : x \in {k \in {1} : Mutations < MaxMut}}
      \cup {Outcome(<<Ev("forEach::fn", el, Undef, "return", Undef, "pop")>>,
                    Pop(heap, array.n), memo, "return", Undef) :
                        x \in {k \in {1} : Mutations < MaxMut /\ Len(heap[array.n]) > 0}}

\* lines 89-91: reduce's callback, with the caller's aggregator
ReduceOutcomes(el) ==
    LET m2 == ReduceCallback(f, memo, el) IN
    {Outcome(<<Returned("forEach::fn", el, Undef, Undef),
               Returned("reduce::aggregator", memo, el, m2)>>, heap, m2, "return", Undef)}
      \cup {Outcome(<<Threw("forEach::fn", el, Undef, e),
                      Threw("reduce::aggregator", memo, el, e)>>, heap, memo, "throw", e) : e \in Errors}

\* lines 106-109: map's aggregator, with the caller's selector
MapOutcomes(el) ==
    {Outcome(<<Returned("forEach::fn", el, Undef, Undef),
               Returned("reduce::aggregator", memo, el, memo),
               Returned("map::selector", el, Undef, ApplySelector(f, el))>>,
             MapAggregator(heap, memo, f, el), memo, "return", Undef)}
      \cup {Outcome(<<Threw("forEach::fn", el, Undef, e),
                      Threw("reduce::aggregator", memo, el, e),
                      Threw("map::selector", el, Undef, e)>>, heap, memo, "throw", e) : e \in Errors}

\* lines 125-130: filter's aggregator, with the caller's predicate or compact's
FilterOutcomes(el) ==
    LET p == IF op = "compact" THEN CompactPredicate(el) ELSE ApplyPredicate(f, el) IN
    {Outcome(<<Returned("forEach::fn", el, Undef, Undef),
               Returned("reduce::aggregator", memo, el, memo),
               Returned("filter::predicate", el, Undef, p)>>,
             IF FilterKeeps(p) THEN Push(heap, memo.n, el) ELSE heap, memo, "return", Undef)}
      \cup {Outcome(<<Threw("forEach::fn", el, Undef, e),
                      Threw("reduce::aggregator", memo, el, e),
                      Threw("filter::predicate", el, Undef, e)>>, heap, memo, "throw", e) :
                e \in {x \in Errors : op = "filter"}}

\* line 64: for's fn, which is the caller's or forEach's closure of line 83
FnOutcomes ==
    LET el == Element(heap[array.n], i) IN
    CASE op = "for" -> CallerOutcomes("for::fn")
      [] op = "forEach" -> CallbackOutcomes(el)
      [] op = "reduce" -> ReduceOutcomes(el)
      [] op = "map" -> MapOutcomes(el)
      [] OTHER -> FilterOutcomes(el)

\* ----------------------------------------------------------------- actions
\* line 151: compact calls filter with its own predicate
Compact ==
    /\ pc = "compact"
    /\ pc' = "filter"
    /\ UNCHANGED <<op, f, S, memo0, heap, array, condition, i, memo, depth, thrown, ret, trace>>

\* lines 119-135: filter calls reduce with a new empty array as memo
Filter ==
    /\ pc = "filter"
    /\ heap' = Append(heap, <<>>)
    /\ memo' = Ref(NewArray(heap))
    /\ pc' = "reduce"
    /\ UNCHANGED <<op, f, S, memo0, array, condition, i, depth, thrown, ret, trace>>

\* lines 100-114: map calls reduce with a new empty array as memo
Map ==
    /\ pc = "map"
    /\ heap' = Append(heap, <<>>)
    /\ memo' = Ref(NewArray(heap))
    /\ pc' = "reduce"
    /\ UNCHANGED <<op, f, S, memo0, array, condition, i, depth, thrown, ret, trace>>

\* lines 88-89: reduce calls forEach with its callback
Reduce ==
    /\ pc = "reduce"
    /\ pc' = "forEach"
    /\ UNCHANGED <<op, f, S, memo0, heap, array, condition, i, memo, depth, thrown, ret, trace>>

\* lines 70-72: forEach declares i and calls for with its four closures
ForEach ==
    /\ pc = "forEach"
    /\ condition' = ForEachCondition
    /\ pc' = "for"
    /\ UNCHANGED <<op, f, S, memo0, heap, array, i, memo, depth, thrown, ret, trace>>

\* lines 61-63: for calls init(), then scratch.while
For ==
    /\ pc = "for"
    /\ IF op = "for"
         THEN \E o \in CallerOutcomes("for::init") :
                /\ trace' = trace \o o.ev
                /\ IF o.out = "throw"
                     THEN pc' = "thrown" /\ thrown' = o.r
                     ELSE pc' = "while" /\ UNCHANGED thrown
                /\ UNCHANGED i
         ELSE /\ i' = ForEachInit
              /\ trace' = Append(trace, Returned("for::init", Undef, Undef, Undef))
              /\ pc' = "while"
              /\ UNCHANGED thrown
    /\ UNCHANGED <<op, f, S, memo0, heap, array, condition, memo, depth, ret>>

\* lines 42-53: while checks its argument, then enters loop()
While ==
    /\ pc = "while"
    /\ IF NotAFunction(condition)
         THEN pc' = "thrown" /\ thrown' = WhileMessage /\ UNCHANGED depth
         ELSE pc' = "loop" /\ depth' = 1 /\ UNCHANGED thrown
    /\ UNCHANGED <<op, f, S, memo0, heap, array, condition, i, memo, ret, trace>>

\* line 54: loop() evaluates condition(); when it is falsy every frame of
\* loop() returns, and so does each function above it
Loop ==
    /\ pc = "loop"
    /\ \E o \in ConditionOutcomes :
        /\ trace' = Append(trace, Ev("while::condition", Undef, Undef, o.out, o.r, "none"))
        /\ IF o.out = "throw"
             THEN pc' = "thrown" /\ thrown' = o.r /\ depth' = 0 /\ UNCHANGED ret
             ELSE IF LoopContinues(o.r)
               THEN depth < MaxDepth /\ pc' = "fn" /\ UNCHANGED <<thrown, depth, ret>>
               ELSE pc' = "done" /\ ret' = ReturnValue /\ depth' = 0 /\ UNCHANGED thrown
    /\ UNCHANGED <<op, f, S, memo0, heap, array, condition, i, memo>>

\* lines 55-56 of a call of scratch.while itself: fn(), then loop()
WhileFn ==
    /\ pc = "fn"
    /\ op = "while"
    /\ \E o \in CallerOutcomes("while::fn") :
        /\ trace' = trace \o o.ev
        /\ IF o.out = "throw"
             THEN pc' = "thrown" /\ thrown' = o.r /\ depth' = 0
             ELSE pc' = "loop" /\ depth' = Recurse(depth) /\ UNCHANGED thrown
    /\ UNCHANGED <<op, f, S, memo0, heap, array, condition, i, memo, ret>>

\* mutant of ForFn: for's closure calls update() before fn()
ForFnUpdateFirst ==
    /\ pc = "fn"
    /\ op \in UsesFor
    /\ \E o \in FnOutcomes :
        /\ trace' = (IF op = "for"
                       THEN Append(trace, Returned("for::update", Undef, Undef, Undef))
                       ELSE <<Returned("for::update", Undef, Undef, Undef),
                              Ev("for::fn", Undef, Undef, o.out, o.r, "none")>>) \o o.ev
        /\ heap' = o.h
        /\ memo' = o.m
        /\ i' = IF op = "for" THEN i ELSE ForEachUpdate(i)
        /\ IF o.out = "throw"
             THEN pc' = "thrown" /\ thrown' = o.r /\ depth' = 0
             ELSE pc' = "loop" /\ depth' = Recurse(depth) /\ UNCHANGED thrown
    /\ UNCHANGED <<op, f, S, memo0, array, condition, ret>>

\* mutant of ForFn: update() runs even when fn() throws, as in a finally
ForFnFinally ==
    /\ pc = "fn"
    /\ op \in UsesFor
    /\ \E o \in FnOutcomes :
        /\ trace' = (IF op = "for" THEN trace
                       ELSE Append(trace, Ev("for::fn", Undef, Undef, o.out, o.r, "none")))
                       \o o.ev
                       \o (IF o.out = "throw"
                             THEN <<Returned("for::update", Undef, Undef, Undef)>>
                             ELSE <<>>)
        /\ heap' = o.h
        /\ memo' = o.m
        /\ IF o.out = "throw"
             THEN pc' = "thrown" /\ thrown' = o.r /\ depth' = 0
             ELSE pc' = "update" /\ UNCHANGED <<thrown, depth>>
    /\ UNCHANGED <<op, f, S, memo0, array, condition, i, ret>>

\* line 55 and line 64: while's fn is for's closure, which calls for's fn
ForFn ==
    /\ pc = "fn"
    /\ op \in UsesFor
    /\ \E o \in FnOutcomes :
        /\ trace' = (IF op = "for" THEN trace
                       ELSE Append(trace, Ev("for::fn", Undef, Undef, o.out, o.r, "none"))) \o o.ev
        /\ heap' = o.h
        /\ memo' = o.m
        /\ IF o.out = "throw"
             THEN pc' = "thrown" /\ thrown' = o.r /\ depth' = 0
             ELSE pc' = "update" /\ UNCHANGED <<thrown, depth>>
    /\ UNCHANGED <<op, f, S, memo0, array, condition, i, ret>>

\* lines 65 and 56: update(), then for's closure returns and loop() recurses
ForUpdate ==
    /\ pc = "update"
    /\ IF op = "for"
         THEN \E o \in CallerOutcomes("for::update") :
                /\ trace' = trace \o o.ev
                /\ IF o.out = "throw"
                     THEN pc' = "thrown" /\ thrown' = o.r /\ depth' = 0
                     ELSE pc' = "loop" /\ depth' = Recurse(depth) /\ UNCHANGED thrown
                /\ UNCHANGED i
         ELSE /\ i' = ForEachUpdate(i)
              /\ trace' = Append(trace, Returned("for::update", Undef, Undef, Undef))
              /\ pc' = "loop"
              /\ depth' = Recurse(depth)
              /\ UNCHANGED thrown
    /\ UNCHANGED <<op, f, S, memo0, heap, array, condition, memo, ret>>

Next ==
    \/ Compact
    \/ Filter
    \/ Map
    \/ Reduce
    \/ ForEach
    \/ For
    \/ While
    \/ Loop
    \/ WhileFn
    \/ ForFn
    \/ ForUpdate

Spec == Init /\ [][Next]_vars

\* ------------------------------------------------------- reading the trace
Calls(name) == SelectSeq(trace, LAMBDA e : e.fn = name)
Count(name) == Len(Calls(name))
Last(q) == q[Len(q)]
Active == pc \in {"loop", "fn", "update"}

\* the invocations scratch.for makes or causes: init, condition, fn, update
ForTrace ==
    SelectSeq(trace, LAMBDA e :
        e.fn \in {"for::init", "while::condition", "for::fn", "for::update"})

\* completed bodies of loop(): while's fn is the caller's function, or for's
\* closure, which completes when update() returns
BodiesCompleted ==
    Len(SelectSeq(trace, LAMBDA e :
        e.out = "return" /\ e.fn = (IF op = "while" THEN "while::fn" ELSE "for::update")))

\* the left fold, by recursion on the sequence
RECURSIVE FoldLeft(_, _, _)
FoldLeft(g, m, q) ==
    IF q = <<>> THEN m
    ELSE FoldLeft(g, ApplyAggregator(g, m, Head(q)), Tail(q))

\* ------------------------------------------------------------------ claims

\* C1: when the callback does not modify S, forEach(S, F) invokes F once per
\* index, in ascending index order 0..len(S)-1, the i-th invocation receiving
\* S[i]; when forEach returns F has been invoked exactly len(S) times, and
\* never for an empty S.
C1_ForEachVisitsEachElementInOrder ==
    (op \in UsesForEach /\ Mutations = 0) =>
        LET c == Calls("forEach::fn") IN
        /\ Len(c) <= Len(S)
        /\ \A k \in 1..Len(c) : c[k].a = S[k]
        /\ (pc = "fn" => i = Num(Len(c)))
        /\ (pc = "update" => i = Num(Len(c) - 1))
        /\ (pc = "done" => Len(c) = Len(S))

C1_Witness ==
    /\ op = "forEach"
    /\ pc = "done"
    /\ Mutations = 0
    /\ Len(S) = 3
    /\ S[1] # S[2]
    /\ Count("forEach::fn") = 3

\* C2: in every run of scratch.for, init is invoked exactly once and before
\* the first evaluation of condition; after each evaluation that returned a
\* truthy value fn is invoked and then update, in that order, before
\* condition is evaluated again; after an evaluation that returned a falsy
\* value nothing more is invoked, so a first evaluation that is falsy means
\* neither fn nor update ever runs.
C2_ForOrder ==
    (op \in UsesFor) =>
        LET T == ForTrace IN
        /\ (pc \in {"while", "loop", "fn", "update", "done", "thrown"} => Len(T) >= 1)
        /\ \A k \in 1..Len(T) :
             CASE T[k].fn = "for::init" -> k = 1
               [] T[k].fn = "while::condition" ->
                    /\ k > 1
                    /\ T[k-1].fn \in {"for::init", "for::update"}
                    /\ T[k-1].out = "return"
               [] T[k].fn = "for::fn" ->
                    /\ k > 1
                    /\ T[k-1].fn = "while::condition"
                    /\ T[k-1].out = "return"
                    /\ ToBoolean(T[k-1].r)
               [] OTHER ->
                    /\ k > 1
                    /\ T[k-1].fn = "for::fn"
                    /\ T[k-1].out = "return"
        /\ (pc = "fn" <=>
              (Len(T) >= 1 /\ Last(T).fn = "while::condition"
                 /\ Last(T).out = "return" /\ ToBoolean(Last(T).r)))
        /\ (pc = "update" <=>
              (Len(T) >= 1 /\ Last(T).fn = "for::fn" /\ Last(T).out = "return"))
        /\ (pc = "done" <=>
              (Len(T) >= 1 /\ Last(T).fn = "while::condition"
                 /\ Last(T).out = "return" /\ ~ToBoolean(Last(T).r)))
        /\ (pc = "done" /\ Count("while::condition") = 1 =>
              Count("for::fn") = 0 /\ Count("for::update") = 0)

C2_Witness ==
    /\ op = "for"
    /\ pc = "done"
    /\ Count("for::init") = 1
    /\ Count("for::fn") = 2
    /\ Count("for::update") = 2
    /\ Count("while::condition") = 3

\* scratch.while has been called with a condition that is not callable, and
\* has acted on it
WhileGotNonCallable ==
    /\ op \in {"while", "for"}
    /\ TypeOf(condition) # "function"
    /\ pc \in {"loop", "fn", "update", "done", "thrown"}
    /\ (trace = <<>> \/ Last(trace).out = "return")

\* C3 as stated: scratch.while called with a condition that is not callable
\* fails with an error of the TypeError class, before any invocation of fn.
C3_ThrowsTypeError ==
    WhileGotNonCallable =>
        /\ pc = "thrown"
        /\ thrown.t = "TypeError"
        /\ Count("while::fn") + Count("for::fn") = 0

\* C3, amended: scratch.while called with a condition that is not callable
\* throws a string (a primitive, not an Error object) that is a non-empty
\* message, before any invocation of condition or fn.
C3_ThrowsMessageString ==
    WhileGotNonCallable =>
        /\ pc = "thrown"
        /\ TypeOf(thrown) = "string"
        /\ thrown.n > 0
        /\ Count("while::condition") + Count("while::fn") + Count("for::fn") = 0

C3_Witness ==
    /\ op = "while"
    /\ condition = Bool(TRUE)
    /\ pc = "thrown"
    /\ trace = <<>>

C5_MapAppliesSelector ==
    (op = "map" /\ pc = "done") =>
        /\ ret.t = "array"
        /\ ret # array
        /\ ret.n > 1
        /\ ret.n \in DOMAIN heap
        /\ Len(heap[ret.n]) = Len(S)
        /\ \A k \in 1..Len(S) : heap[ret.n][k] = ApplySelector(f, S[k])
        /\ heap[array.n] = S

C5_Witness ==
    /\ op = "map"
    /\ f = "not"
    /\ pc = "done"
    /\ S = <<Num(0), Num(1), Null>>
    /\ heap[ret.n] = <<Bool(TRUE), Bool(FALSE), Bool(TRUE)>>

\* C6: when the predicate does not modify S, filter(S, p) returns a new array
\* that is exactly the subsequence of S of the elements for which p(element)
\* is truthy, in their original order (so no longer than S, and empty when p
\* is falsy for every element); S is left unchanged.
C6_FilterKeepsTruthy ==
    (op = "filter" /\ pc = "done") =>
        /\ ret.t = "array"
        /\ ret # array
        /\ ret.n > 1
        /\ ret.n \in DOMAIN heap
        /\ heap[ret.n] = SelectSeq(S, LAMBDA e : ToBoolean(ApplyPredicate(f, e)))
        /\ Len(heap[ret.n]) <= Len(S)
        /\ (f = "never" => heap[ret.n] = <<>>)
        /\ heap[array.n] = S

C6_Witness ==
    /\ op = "filter"
    /\ f = "self"
    /\ pc = "done"
    /\ S = <<Num(1), Num(0), Num(1)>>
    /\ heap[ret.n] = <<Num(1), Num(1)>>

\* C7: compact(S) returns the elements of S in their original order with
\* exactly the null and undefined entries removed; 0, the empty string and
\* false are kept.
C7_CompactRemovesNullAndUndefined ==
    (op = "compact" /\ pc = "done") =>
        /\ ret.t = "array"
        /\ ret.n \in DOMAIN heap
        /\ heap[ret.n] = SelectSeq(S, LAMBDA e : e # Null /\ e # Undef)
        /\ heap[array.n] = S

C7_Witness ==
    /\ op = "compact"
    /\ pc = "done"
    /\ S = <<Num(0), Null, Bool(FALSE)>>
    /\ heap[ret.n] = <<Num(0), Bool(FALSE)>>

\* C8: in every run of scratch.while with a callable condition, condition is
\* evaluated before each invocation of fn, fn is invoked exactly once after
\* each evaluation that returned a truthy value and never after a falsy one,
\* the call returns only right after an evaluation that returned a falsy
\* value (k completed bodies, k+1 evaluations), and while the loop runs the
\* number of frames of loop() is the number of completed bodies plus one.
C8_LoopProtocol ==
    /\ (Active => depth = BodiesCompleted + 1)
    /\ (pc = "done" => Count("while::condition") = BodiesCompleted + 1)
    /\ (op = "while" =>
          /\ \A k \in 1..Len(trace) :
               IF k % 2 = 1
                 THEN /\ trace[k].fn = "while::condition"
                      /\ (k > 1 => trace[k-1].out = "return")
                 ELSE /\ trace[k].fn = "while::fn"
                      /\ trace[k-1].out = "return"
                      /\ ToBoolean(trace[k-1].r)
          /\ (pc = "fn" <=>
                (trace # <<>> /\ Last(trace).fn = "while::condition"
                   /\ Last(trace).out = "return" /\ ToBoolean(Last(trace).r)))
          /\ (pc = "done" <=>
                (trace # <<>> /\ Last(trace).fn = "while::condition"
                   /\ Last(trace).out = "return" /\ ~ToBoolean(Last(trace).r)))
          /\ (pc = "done" => Count("while::condition") = Count("while::fn") + 1))

C8_Witness ==
    /\ op = "while"
    /\ pc = "done"
    /\ Count("while::fn") = 3
    /\ Count("while::condition") = 4

C8_WitnessDepth ==
    /\ op = "while"
    /\ pc = "fn"
    /\ depth = 3
    /\ BodiesCompleted = 2

\* the callback's pushes and pops before its k-th invocation, and the length
\* the array had at that invocation
EffectsBefore(c, k, fx) == Cardinality({j \in 1..(k - 1) : c[j].fx = fx})
LengthAt(c, k) == Len(S) + EffectsBefore(c, k, "push") - EffectsBefore(c, k, "pop")

\* C9: forEach compares the index with the array's current length on every
\* iteration: at every invocation of the callback the index is smaller than
\* the length at that moment, so indices removed before they are reached are
\* not visited; elements the callback appends are visited too; and forEach
\* does not return when the callback appends on every invocation.
C9_ForEachReadsCurrentLength ==
    (op = "forEach") =>
        LET c == Calls("forEach::fn") IN
        /\ (pc = "fn" => LessThan(i, Len(heap[array.n])))
        /\ \A k \in 1..Len(c) : k - 1 < LengthAt(c, k)
        /\ (pc = "done" => Len(c) >= Len(heap[array.n]))
        /\ ((\A k \in 1..Len(c) : c[k].fx # "pop") =>
              /\ Len(c) <= Len(heap[array.n])
              /\ \A k \in 1..Len(c) : c[k].a = heap[array.n][k])
        /\ (pc = "done" /\ Len(c) > 0 => \E k \in 1..Len(c) : c[k].fx # "push")

C9_Witness ==
    /\ op = "forEach"
    /\ pc = "done"
    /\ Len(S) = 1
    /\ Count("forEach::fn") = 3
    /\ Len(heap[array.n]) = 3

C9_WitnessShortened ==
    /\ op = "forEach"
    /\ pc = "done"
    /\ Len(S) = 3
    /\ Count("forEach::fn") = 2
    /\ Len(heap[array.n]) = 2

\* the parameters of the called function that the caller supplied
CallerSupplied ==
    CASE op = "while" -> {"while::condition", "while::fn"}
      [] op = "for" -> {"for::init", "while::condition", "for::fn", "for::update"}
      [] op = "forEach" -> {"forEach::fn"}
      [] op = "reduce" -> {"reduce::aggregator"}
      [] op = "map" -> {"map::selector"}
      [] op = "filter" -> {"filter::predicate"}
      [] OTHER -> {}

\* C10: when a function supplied by the caller throws, the value it threw
\* reaches the caller unmodified, nothing is returned, and no function of the
\* caller is invoked after it: the throwing invocation is the last one (in
\* scratch.for an error of fn prevents that iteration's update).
C10_ErrorsPropagate ==
    \A k \in 1..Len(trace) :
        (trace[k].out = "throw") =>
            /\ pc = "thrown"
            /\ thrown = trace[k].r
            /\ ret = Undef
            /\ Last(trace).fn \in CallerSupplied
            /\ \A j \in k..Len(trace) :
                 /\ trace[j].out = "throw"
                 /\ trace[j].r = trace[k].r
                 /\ (trace[j].fn \in CallerSupplied => j = Len(trace))

C10_Witness ==
    /\ op = "for"
    /\ pc = "thrown"
    /\ thrown = Err(1)
    /\ Last(trace).fn = "for::fn"
    /\ Count("for::update") = 1

C10_WitnessMap ==
    /\ op = "map"
    /\ pc = "thrown"
    /\ thrown = Str(4)
    /\ Count("map::selector") = 2
====
